---- MODULE Spec2Model ----
(***************************************************************************)
(* FinBot (src/App.tsx): the command parser, the response resolver, the    *)
(* two Alpha Vantage fetch helpers and the submit handler of the chat      *)
(* widget.                                                                 *)
(*                                                                         *)
(* A JavaScript string is modelled as the sequence of its characters, so   *)
(* that trim, split, includes, replace and substring are computed, not     *)
(* assumed.  An object is a function from its keys, and a key it lacks is   *)
(* a key outside its DOMAIN.                                               *)
(***************************************************************************)
EXTENDS Integers, Sequences, FiniteSets, TLC

VARIABLES
    messages,    \* App.messages: the conversation log
    input,       \* App.input: the text in the input control
    isLoading,   \* App.isLoading
    pending,     \* the getBotResponse calls that are suspended at an await
    submitted,   \* history: the user messages accepted so far, in order
    net,         \* history: network events since the last accepted submission
    lastEvent,   \* history: the kind of the last step
    arg,         \* resolver harness: the argument of the call under test
    ret          \* resolver harness: the value the call resolved to

vars == <<messages, input, isLoading, pending, submitted, net, lastEvent, arg, ret>>

(***************************************************************************)
(* JavaScript values and strings                                           *)
(***************************************************************************)
undefined == [type |-> "undefined"]
NaN == [nan |-> TRUE, v |-> 0]

\* A finite number, kept as an integer count of 1/10000.
Num(v) == [nan |-> FALSE, v |-> v]

Explode(s) == [i \in 1..Len(s) |-> SubSeq(s, i, i)]

\* Op(e), with e evaluated once: an operator's argument is otherwise evaluated
\* again wherever the operator's body uses it
Value(Op(_), e) == CHOOSE r \in {Op(v) : v \in {e}} : TRUE

UpperChars == Explode("ABCDEFGHIJKLMNOPQRSTUVWXYZ")
LowerChars == Explode("abcdefghijklmnopqrstuvwxyz")
DigitChars == Explode("0123456789")
\* the white space String.prototype.trim removes (space, tab, line feed)
WhiteSpace == {" ", "\t", "\n"}

PosIn(c, chars) ==
    IF \E i \in DOMAIN chars : chars[i] = c
    THEN CHOOSE i \in DOMAIN chars : chars[i] = c
    ELSE 0

LowerChar(c) == IF PosIn(c, UpperChars) > 0 THEN LowerChars[PosIn(c, UpperChars)] ELSE c
UpperChar(c) == IF PosIn(c, LowerChars) > 0 THEN UpperChars[PosIn(c, LowerChars)] ELSE c

toLowerCase(s) == Value(LAMBDA v : [i \in DOMAIN v |-> LowerChar(v[i])], s)

toUpperCase(s) == Value(LAMBDA v : [i \in DOMAIN v |-> UpperChar(v[i])], s)

RECURSIVE trimStart(_)
trimStart(s) ==
    Value(LAMBDA v : IF v # <<>> /\ Head(v) \in WhiteSpace THEN trimStart(Tail(v)) ELSE v, s)

RECURSIVE trimEnd(_)
trimEnd(s) ==
    Value(LAMBDA v : IF v # <<>> /\ v[Len(v)] \in WhiteSpace
                     THEN trimEnd(SubSeq(v, 1, Len(v) - 1)) ELSE v, s)

trim(s) == trimEnd(trimStart(s))

startsWith(s, pat) ==
    Value(LAMBDA v : Len(pat) <= Len(v) /\ SubSeq(v, 1, Len(pat)) = pat, s)

FirstHit(s, pat) ==
    LET hits == {i \in 1..(Len(s) - Len(pat) + 1) : SubSeq(s, i, i + Len(pat) - 1) = pat}
    IN  IF hits = {} THEN 0 ELSE CHOOSE i \in hits : \A j \in hits : i <= j

\* 1-based index of the first occurrence of pat in s, 0 when there is none
indexOf(s, pat) == Value(LAMBDA v : FirstHit(v, pat), s)

includes(s, pat) == indexOf(s, pat) > 0

\* String.prototype.replace with a string pattern: the first occurrence only
replace(s, pat, rep) ==
    Value(LAMBDA v :
            Value(LAMBDA i : IF i = 0 THEN v
                             ELSE SubSeq(v, 1, i - 1) \o rep \o SubSeq(v, i + Len(pat), Len(v)),
                  indexOf(v, pat)),
          s)

\* String.prototype.split with a one-character separator: every occurrence of
\* the separator ends a part, so n separators give n + 1 parts, empty ones kept
RECURSIVE split(_, _)
split(s, sep) ==
    Value(LAMBDA v :
            Value(LAMBDA i : IF i = 0 THEN <<v>>
                             ELSE <<SubSeq(v, 1, i - 1)>> \o split(SubSeq(v, i + 1, Len(v)), sep),
                  indexOf(v, <<sep>>)),
          s)

RECURSIVE join(_, _)
join(parts, sep) ==
    Value(LAMBDA v : IF v = <<>> THEN <<>>
                     ELSE IF Len(v) = 1 THEN v[1]
                     ELSE v[1] \o <<sep>> \o join(Tail(v), sep),
          parts)

\* Array.prototype.slice(from, to) and slice(from)
slice(seq, from, to) ==
    Value(LAMBDA v : SubSeq(v, from + 1, IF to < Len(v) THEN to ELSE Len(v)), seq)
sliceFrom(seq, from) == Value(LAMBDA v : SubSeq(v, from + 1, Len(v)), seq)

substring(s, from, to) == slice(s, from, to)

reverse(seq) == Value(LAMBDA v : [i \in DOMAIN v |-> v[Len(v) + 1 - i]], seq)

\* key in obj with a value: obj[key] is not undefined
Has(obj, key) == key \in DOMAIN obj

\* the object literal {} and Object.keys(obj).length
EmptyObject == [k \in {} |-> k]
KeyCount(obj) == Cardinality(DOMAIN obj)

(***************************************************************************)
(* Numbers: parseFloat and Number.prototype.toFixed(2)                     *)
(***************************************************************************)
RECURSIVE DigitsLen(_)
\* the length of the run of decimal digits s starts with
DigitsLen(s) ==
    Value(LAMBDA v : IF v # <<>> /\ PosIn(Head(v), DigitChars) > 0
                     THEN 1 + DigitsLen(Tail(v)) ELSE 0, s)

RECURSIVE DigitsValue(_)
DigitsValue(ds) ==
    Value(LAMBDA v : IF v = <<>> THEN 0
                     ELSE 10 * DigitsValue(SubSeq(v, 1, Len(v) - 1))
                            + (PosIn(v[Len(v)], DigitChars) - 1), ds)

\* the first four decimals of a fraction, as a count of 1/10000
FractionValue(ds) ==
    DigitsValue(SubSeq(ds \o Explode("0000"), 1, 4))

\* the number a sign, a run of digits and what follows them stand for
NumberOf(neg, u, n) ==
    LET rest == SubSeq(u, n + 1, Len(u))
        m == IF rest # <<>> /\ Head(rest) = "." THEN DigitsLen(Tail(rest)) ELSE 0
        mag == 10000 * DigitsValue(SubSeq(u, 1, n)) + FractionValue(SubSeq(rest, 2, m + 1))
    IN  IF n + m = 0 THEN NaN
        ELSE Num(IF neg THEN 0 - mag ELSE mag)

\* parseFloat(s): leading white space, an optional sign, digits and an optional
\* fraction; whatever follows is ignored; NaN when no digit is found
parseFloat(s) ==
    Value(LAMBDA t :
            Value(LAMBDA u : Value(LAMBDA n : NumberOf(t # <<>> /\ Head(t) = "-", u, n),
                                   DigitsLen(u)),
                  IF t # <<>> /\ Head(t) \in {"-", "+"} THEN Tail(t) ELSE t),
          trimStart(s))

\* parseFloat(obj[key]): parseFloat(undefined) is NaN
parseFloatOf(obj, key) ==
    IF Has(obj, key) THEN parseFloat(obj[key]) ELSE NaN

RECURSIVE NatToString(_)
NatToString(n) ==
    Value(LAMBDA v : IF v < 10 THEN <<DigitChars[v + 1]>>
                     ELSE NatToString(v \div 10) \o <<DigitChars[(v % 10) + 1]>>, n)

\* the hundredths h, with the sign, as digits
FixedOf(neg, h) ==
    (IF neg THEN <<"-">> ELSE <<>>)
      \o NatToString(h \div 100) \o <<".">>
      \o <<DigitChars[((h % 100) \div 10) + 1], DigitChars[(h % 10) + 1]>>

\* x.toFixed(2): two decimals, rounded; "NaN" for NaN
toFixed2(x) ==
    Value(LAMBDA v : IF v.nan THEN Explode("NaN")
                     ELSE Value(LAMBDA h : FixedOf(v.v < 0, h),
                                ((IF v.v < 0 THEN 0 - v.v ELSE v.v) + 50) \div 100),
          x)

(***************************************************************************)
(* predefinedResponses (lines 15-23).  The stored texts are cut to their   *)
(* first sentence: no branch looks inside them.                            *)
(***************************************************************************)
\* the own keys, in the order Object.entries enumerates them
predefinedKeys ==
    << Explode("hello"), Explode("help"), Explode("what is a stock"),
       Explode("investment tips"), Explode("market basics"),
       Explode("explain investing"), Explode("default") >>

predefinedTexts ==
    << Explode("Hello! I'm your financial assistant."),
       Explode("Here are commands you can try:"),
       Explode("A stock represents ownership in a company."),
       Explode("Here are some basic investment tips:"),
       Explode("The stock market is where shares of public companies are bought and sold."),
       Explode("Investing is putting money into assets hoping to grow wealth over time."),
       Explode("I'm not sure about that. Try asking about stocks, investing basics, or type 'help' for available commands.") >>

\* predefinedResponses is an object literal, so a property read that finds no own
\* key goes on to Object.prototype; these are its all-lowercase property names
\* and what each reads as in a template string
inheritedKeys == << Explode("constructor"), Explode("__proto__") >>
inheritedTexts ==
    << Explode("function Object() { [native code] }"), Explode("[object Object]") >>

KeyIndex(keys, key) ==
    IF \E i \in DOMAIN keys : keys[i] = key
    THEN CHOOSE i \in DOMAIN keys : keys[i] = key
    ELSE 0

\* predefinedResponses[key] is truthy
predefinedHas(key) ==
    KeyIndex(predefinedKeys, key) > 0 \/ KeyIndex(inheritedKeys, key) > 0

\* predefinedResponses[key], for a key that predefinedHas
predefinedResponses(key) ==
    IF KeyIndex(predefinedKeys, key) > 0
    THEN predefinedTexts[KeyIndex(predefinedKeys, key)]
    ELSE inheritedTexts[KeyIndex(inheritedKeys, key)]

predefinedDefault == predefinedResponses(Explode("default"))

(***************************************************************************)
(* parseCommand (lines 27-33)                                              *)
(***************************************************************************)
parseCommand(message) ==
    Value(LAMBDA parts : [command |-> parts[1], args |-> join(sliceFrom(parts, 1), " ")],
          split(trim(toLowerCase(message)), " "))

(***************************************************************************)
(* The fetch helpers.  What `await fetch(...)` followed by                 *)
(* `await response.json()` comes to is a reply:                            *)
(*   [kind |-> "rejects"]  fetch rejects or the body is not JSON: a throw  *)
(*   [kind |-> "null"]     the body is the JSON null: reading a property   *)
(*                         of it throws a TypeError                        *)
(*   [kind |-> "object", json |-> obj]  the body is a JSON object          *)
(* A monthly series is the sequence of its <<date, values>> entries in the *)
(* order Object.entries gives them: the order of the keys in the body,     *)
(* date keys not being array indices.                                      *)
(***************************************************************************)
RateLimitText == Explode("API rate limit reached. Please try again in a minute.")

\* getStockData (lines 109-128)
getStockData(symbol, reply) ==
    IF reply.kind # "object"
    THEN [error |-> Explode("Failed to fetch stock data. Please try again.")]
    ELSE LET data == reply.json
         IN  IF Has(data, "Note") /\ data["Note"] # <<>>
             THEN [error |-> RateLimitText]
             ELSE IF ~Has(data, "Global Quote") \/ KeyCount(data["Global Quote"]) = 0
             THEN [error |-> Explode("Could not find stock data for symbol: ") \o symbol]
             ELSE [data |-> data["Global Quote"]]

\* the projection of one entry (lines 53-56)
chartPoint(entry) ==
    [date |-> substring(entry[1], 0, 7), price |-> parseFloatOf(entry[2], "4. close")]

\* chartDataOf without its reverse(): the series stays newest first
chartDataOfNewestFirst(series) ==
    LET kept == slice(series, 0, 12)
    IN  [i \in DOMAIN kept |-> chartPoint(kept[i])]

\* lines 50-56: the first 12 entries, reversed, projected
chartDataOf(series) ==
    LET kept == reverse(slice(series, 0, 12))
    IN  [i \in DOMAIN kept |-> chartPoint(kept[i])]

\* getHistoricalData (lines 35-62)
getHistoricalData(symbol, reply) ==
    IF reply.kind # "object"
    THEN [error |-> Explode("Failed to fetch historical data")]
    ELSE LET data == reply.json
         IN  IF Has(data, "Note") /\ data["Note"] # <<>>
             THEN [error |-> RateLimitText]
             ELSE IF ~Has(data, "Monthly Time Series")
             THEN [error |-> Explode("No historical data found")]
             ELSE [data |-> chartDataOf(data["Monthly Time Series"])]

(***************************************************************************)
(* formatStockResponse (lines 130-141).  The two emoji are written out.    *)
(***************************************************************************)
GlyphUp == Explode("[chart increasing]")
GlyphDown == Explode("[chart decreasing]")

formatStockResponse(stockData, symbol) ==
    LET price == toFixed2(parseFloatOf(stockData, "05. price"))
        change == toFixed2(parseFloatOf(stockData, "09. change"))
        changePercent ==
            IF Has(stockData, "10. change percent")
            THEN stockData["10. change percent"] ELSE Explode("undefined")
        c == parseFloat(change)
        direction == IF ~c.nan /\ c.v >= 0 THEN GlyphUp ELSE GlyphDown
    IN  direction \o Explode(" ") \o toUpperCase(symbol) \o Explode(" Stock Info:\n")
          \o Explode("Price: $") \o price \o Explode("\n")
          \o Explode("Change: $") \o change \o Explode(" (") \o changePercent
          \o Explode(")\n")
          \o Explode("Today's High: $") \o toFixed2(parseFloatOf(stockData, "03. high"))
          \o Explode("\n")
          \o Explode("Today's Low: $") \o toFixed2(parseFloatOf(stockData, "04. low"))

(***************************************************************************)
(* getBotResponse (lines 143-193), in the pieces its two awaits cut it     *)
(* into.                                                                   *)
(***************************************************************************)
\* line 148: the stock branch is taken
isStockCommand(userMessage) ==
    LET p == parseCommand(userMessage)
    IN  p.command = Explode("stock") /\ p.args # <<>>

\* line 149
stockSymbol(userMessage) == split(parseCommand(userMessage).args, " ")[1]

\* historyFollows as it would be were the history request made only after a good quote
historyFollowsGoodQuote(quoteResult) == ~Has(quoteResult, "error")

\* line 151: the history request is issued whatever the quote request gave
historyFollows(quoteResult) == TRUE

\* stockResponse with the history result looked at first: a chart is attached
\* whenever the history is good, also under the text of a failed quote
stockResponseChartFirst(symbol, quoteResult, historyResult) ==
    LET text == IF Has(quoteResult, "error") THEN quoteResult.error
                ELSE formatStockResponse(quoteResult.data, symbol)
    IN  IF ~Has(historyResult, "error")
        THEN [text |-> text,
              chartData |-> [symbol |-> toUpperCase(symbol), data |-> historyResult.data]]
        ELSE [text |-> text]

\* stockResponse with a failed history treated as a failure of the response
stockResponseHistoryError(symbol, quoteResult, historyResult) ==
    IF Has(quoteResult, "error")
    THEN [text |-> quoteResult.error]
    ELSE IF Has(historyResult, "error")
    THEN [text |-> historyResult.error]
    ELSE [text |-> formatStockResponse(quoteResult.data, symbol),
          chartData |-> [symbol |-> toUpperCase(symbol), data |-> historyResult.data]]

\* lines 153-169: the stock branch once both results are in
stockResponse(symbol, quoteResult, historyResult) ==
    IF Has(quoteResult, "error")
    THEN [text |-> quoteResult.error]
    ELSE LET response == formatStockResponse(quoteResult.data, symbol)
         IN  IF ~Has(historyResult, "error")
             THEN [text |-> response,
                   chartData |-> [symbol |-> toUpperCase(symbol),
                                  data |-> historyResult.data]]
             ELSE [text |-> response]

\* lines 178-182: the first own key the message contains, 0 when none
partialMatch(lowerMessage) ==
    LET hits == {i \in DOMAIN predefinedKeys : includes(lowerMessage, predefinedKeys[i])}
    IN  IF hits = {} THEN 0 ELSE CHOOSE i \in hits : \A j \in hits : i <= j

\* line 186
termOf(lowerMessage) ==
    trim(replace(replace(lowerMessage, Explode("what is"), <<>>), Explode("explain"), <<>>))

\* staticResponse with the definition query tried before the exact match
staticResponseDefinitionFirst(userMessage) ==
    LET lowerMessage == toLowerCase(userMessage)
        term == termOf(lowerMessage)
    IN  IF (startsWith(lowerMessage, Explode("what is"))
              \/ startsWith(lowerMessage, Explode("explain")))
           /\ term # <<>>
        THEN [text |-> Explode("I'll explain ") \o term \o Explode(". ")
                         \o (IF predefinedHas(term) THEN predefinedResponses(term)
                             ELSE predefinedDefault)]
        ELSE IF predefinedHas(lowerMessage)
        THEN [text |-> predefinedResponses(lowerMessage)]
        ELSE IF partialMatch(lowerMessage) > 0
        THEN [text |-> predefinedTexts[partialMatch(lowerMessage)]]
        ELSE [text |-> predefinedDefault]

\* lines 172-192: every branch below the stock branch
staticResponse(userMessage) ==
    LET lowerMessage == toLowerCase(userMessage)
        term == termOf(lowerMessage)
    IN  IF predefinedHas(lowerMessage)
        THEN [text |-> predefinedResponses(lowerMessage)]
        ELSE IF partialMatch(lowerMessage) > 0
        THEN [text |-> predefinedTexts[partialMatch(lowerMessage)]]
        ELSE IF (startsWith(lowerMessage, Explode("what is"))
                   \/ startsWith(lowerMessage, Explode("explain")))
                /\ term # <<>>
        THEN [text |-> Explode("I'll explain ") \o term \o Explode(". ")
                         \o (IF predefinedHas(term) THEN predefinedResponses(term)
                             ELSE predefinedDefault)]
        ELSE [text |-> predefinedDefault]

\* what getBotResponse(userMessage) resolves to when the quote and the history
\* request come to these replies
getBotResponse(userMessage, quoteReply, historyReply) ==
    IF isStockCommand(userMessage)
    THEN LET symbol == stockSymbol(userMessage)
         IN  stockResponse(symbol, getStockData(symbol, quoteReply),
                           getHistoricalData(symbol, historyReply))
    ELSE staticResponse(userMessage)

(***************************************************************************)
(* The environment: what the user types and what Alpha Vantage answers     *)
(***************************************************************************)
\* accepted submissions per behaviour of the widget
MaxSubmits == 2
\* the longest monthly series a history reply carries
MaxHist == 13

Rejects == [kind |-> "rejects"]
JsonNull == [kind |-> "null"]
Json(obj) == [kind |-> "object", json |-> obj]

NoteBody == "Note" :> Explode("Thank you for using Alpha Vantage!")

QuoteUp ==
    ("01. symbol" :> Explode("AAPL")) @@ ("03. high" :> Explode("151.0000"))
      @@ ("04. low" :> Explode("148.0000")) @@ ("05. price" :> Explode("150.0000"))
      @@ ("09. change" :> Explode("2.5000"))
      @@ ("10. change percent" :> Explode("1.6900%"))

QuoteDown ==
    ("01. symbol" :> Explode("TSLA")) @@ ("03. high" :> Explode("251.5"))
      @@ ("04. low" :> Explode("240.126")) @@ ("05. price" :> Explode("242.8350"))
      @@ ("09. change" :> Explode("-3.1000"))
      @@ ("10. change percent" :> Explode("-1.2605%"))

\* a quote object that lacks the fields formatStockResponse reads
QuoteBare == "01. symbol" :> Explode("ZZZZ")

QuoteReplies ==
    { Rejects, JsonNull, Json(NoteBody), Json(EmptyObject),
      Json("Global Quote" :> EmptyObject),
      Json("Global Quote" :> QuoteUp), Json("Global Quote" :> QuoteDown),
      Json("Global Quote" :> QuoteBare),
      Json(NoteBody @@ ("Global Quote" :> QuoteUp)) }

TwoDigits(n) == <<DigitChars[(n \div 10) + 1], DigitChars[(n % 10) + 1]>>

\* the k-th most recent month end, "YYYY-MM-DD"; k = 1 is 2024-12
DateOf(k) ==
    NatToString(2024 - ((k - 1) \div 12)) \o <<"-">>
      \o TwoDigits(12 - ((k - 1) % 12)) \o Explode("-28")

MonthValues(k) ==
    ("1. open" :> Explode("99.0000"))
      @@ ("4. close" :> (NatToString(100 + k) \o Explode(".2500")))

\* a monthly series of n entries, newest first, as Alpha Vantage sends it
Series(n) == [k \in 1..n |-> <<DateOf(k), MonthValues(k)>>]

\* a series whose second entry has no closing value
SeriesNoClose ==
    << <<DateOf(1), MonthValues(1)>>, <<DateOf(2), "1. open" :> Explode("99.0000")>> >>

HistoryReplies ==
    { Rejects, JsonNull, Json(NoteBody), Json(EmptyObject),
      Json("Monthly Time Series" :> SeriesNoClose),
      Json(NoteBody @@ ("Monthly Time Series" :> Series(12))) }
      \cup { Json("Monthly Time Series" :> Series(n)) : n \in 0..MaxHist }

\* the widget is checked against a sample of the replies, the resolver alone
\* against all of them
QuoteRepliesFor(caller) ==
    IF caller = "handleSubmit"
    THEN { Rejects, Json(NoteBody), Json("Global Quote" :> EmptyObject),
           Json("Global Quote" :> QuoteUp) }
    ELSE QuoteReplies

HistoryRepliesFor(caller) ==
    IF caller = "handleSubmit"
    THEN { Rejects, Json(NoteBody), Json(EmptyObject),
           Json("Monthly Time Series" :> Series(2)) }
    ELSE HistoryReplies

\* what the user types into the widget
TypedInputs ==
    { Explode("hello"), Explode("  Stock   AAPL  "), Explode("stock tsla"),
      Explode("What is a bond"), Explode("   ") }

Pad(s) == Explode("  ") \o s \o Explode(" ")

\* the arguments the resolver is called with
ResolveInputs ==
    { predefinedKeys[i] : i \in DOMAIN predefinedKeys }
      \cup { toUpperCase(predefinedKeys[i]) : i \in DOMAIN predefinedKeys }
      \cup { Pad(predefinedKeys[i]) : i \in DOMAIN predefinedKeys }
      \cup { Explode("stock aapl"), Explode("Stock AAPL"), Explode("  Stock   AAPL  "),
             Explode("stock  aapl"), Explode("STOCK tsla msft"),
             Explode("stock"), Explode("stock "), Explode("stocks aapl") }
      \cup { Explode("what is a bond"), Explode("What is  a Bond "), Explode("explain etf"),
             Explode("what is"), Explode("explain"), Explode("explain  "),
             Explode("explain what is etf"), Explode("what is explain"),
             Explode("what is helexplainlo"), Explode("explain hewhat islp"),
             Explode("what is constructor"), Explode("explain __proto__"),
             Explode("explainer"), Explode("what isn't"),
             Explode(" what is a bond"), Explode("tell me what is a bond") }
      \cup { Explode("say hello and help"), Explode("i need help, hello"),
             Explode("market basics and investment tips"), Explode("is this the default") }
      \cup { <<>>, Explode("   "), Explode("bonds"), Explode("constructor") }

(***************************************************************************)
(* The widget (App, lines 91-219) and the harness that calls the resolver  *)
(***************************************************************************)
Greeting ==
    [text |-> Explode("Hi! I'm FinBot, your AI financial assistant. How can I help you today?"),
     isBot |-> TRUE]

ErrorText == Explode("I'm sorry, I encountered an error. Please try again later.")

\* history only: a request as issued, and as settled with the reply it got
NetEvent(op, ev, symbol) == [op |-> op, ev |-> ev, symbol |-> symbol]
NetSettled(op, symbol, reply) == [op |-> op, ev |-> "settled", symbol |-> symbol, reply |-> reply]

Init ==
    /\ messages = <<Greeting>>
    /\ input = <<>>
    /\ isLoading = FALSE
    /\ pending = <<>>
    /\ submitted = <<>>
    /\ net = <<>>
    /\ lastEvent = "init"
    /\ arg = <<>>
    /\ ret = [state |-> "none"]

\* submitAccepted without the early return of line 197
submitAcceptedAlways(text, loading) == TRUE

\* line 197: the submit event goes on
submitAccepted(text, loading) == ~(trim(text) = <<>> \/ loading)

\* lines 206-210: the assistant entry made from a response
entryOf(botResponse) ==
    [text |-> botResponse.text,
     isBot |-> TRUE,
     chartData |-> IF Has(botResponse, "chartData") THEN botResponse.chartData
                   ELSE undefined]

\* logAfter with the new entry put in front of the previous log
logAfterPrepend(log, outcome) ==
    IF outcome.threw
    THEN <<[text |-> ErrorText, isBot |-> TRUE]>> \o log
    ELSE <<entryOf(outcome.value)>> \o log

\* lines 204-215: the log after `await getBotResponse(userMessage)` has settled
logAfter(log, outcome) ==
    IF outcome.threw
    THEN Append(log, [text |-> ErrorText, isBot |-> TRUE])
    ELSE Append(log, entryOf(outcome.value))

\* loadingAfter without the finally block: the flag is never cleared
loadingAfterNoFinally(outcome) == TRUE

\* lines 216-218
loadingAfter(outcome) == FALSE

\* getBotResponse has no path that throws: both fetch helpers catch whatever
\* their request throws, and nothing below them throws
Resolved(value) == [threw |-> FALSE, value |-> value]

\* a call of getBotResponse that is suspended at its first await
Suspended(caller, userMessage) ==
    [caller |-> caller, userMessage |-> userMessage,
     symbol |-> stockSymbol(userMessage), stage |-> "quote",
     quoteResult |-> [unset |-> TRUE]]

Without(seq, i) == SubSeq(seq, 1, i - 1) \o SubSeq(seq, i + 1, Len(seq))

\* the input control's onChange (line 300); the control is disabled while loading
onChange ==
    /\ ~isLoading
    /\ \E s \in TypedInputs : input' = s
    /\ lastEvent' = "change"
    /\ UNCHANGED <<messages, isLoading, pending, submitted, net, arg, ret>>

\* handleSubmit (lines 195-219) up to its await, and through to its end when
\* getBotResponse returns without a request: the rest of the handler then runs
\* as a microtask, before any other event
handleSubmit ==
    IF ~submitAccepted(input, isLoading)
    THEN /\ lastEvent' = "rejected"
         /\ UNCHANGED <<messages, input, isLoading, pending, submitted, net, arg, ret>>
    ELSE \E userMessage \in {trim(input)} :
         \E withUser \in {Append(messages, [text |-> userMessage, isBot |-> FALSE])} :
             /\ Len(submitted) < MaxSubmits
             /\ input' = <<>>
             /\ submitted' = Append(submitted, userMessage)
             /\ lastEvent' = "accepted"
             /\ IF isStockCommand(userMessage)
                THEN /\ messages' = withUser
                     /\ isLoading' = TRUE
                     /\ pending' = Append(pending, Suspended("handleSubmit", userMessage))
                     /\ net' = <<NetEvent("quote", "request", stockSymbol(userMessage))>>
                ELSE \E outcome \in {Resolved(staticResponse(userMessage))} :
                     /\ messages' = logAfter(withUser, outcome)
                     /\ isLoading' = loadingAfter(outcome)
                     /\ pending' = pending
                     /\ net' = <<>>
             /\ UNCHANGED <<arg, ret>>

\* the call pending[i] resolves to value: its caller goes on
Settle(i, value) ==
    /\ pending' = Without(pending, i)
    /\ IF pending[i].caller = "handleSubmit"
       THEN \E outcome \in {Resolved(value)} :
            /\ messages' = logAfter(messages, outcome)
            /\ isLoading' = loadingAfter(outcome)
            /\ ret' = ret
       ELSE /\ ret' = [state |-> "resolved", value |-> value]
            /\ UNCHANGED <<messages, isLoading>>

\* the quote request of a suspended call settles (line 150) and the call goes on
\* to line 151
QuoteSettles ==
    \E i \in DOMAIN pending :
        /\ pending[i].stage = "quote"
        /\ \E reply \in QuoteRepliesFor(pending[i].caller) :
           \E quoteResult \in {getStockData(pending[i].symbol, reply)} :
             IF historyFollows(quoteResult)
             THEN /\ pending' = [pending EXCEPT ![i].stage = "history",
                                                ![i].quoteResult = quoteResult]
                  /\ net' = net \o <<NetSettled("quote", pending[i].symbol, reply),
                                     NetEvent("history", "request", pending[i].symbol)>>
                  /\ UNCHANGED <<messages, isLoading, ret>>
             ELSE /\ Settle(i, stockResponse(pending[i].symbol, quoteResult, quoteResult))
                  /\ net' = Append(net, NetSettled("quote", pending[i].symbol, reply))
        /\ lastEvent' = "quote"
        /\ UNCHANGED <<input, submitted, arg>>

\* the history request settles (line 151) and the call runs to its return
HistorySettles ==
    \E i \in DOMAIN pending :
        /\ pending[i].stage = "history"
        /\ \E reply \in HistoryRepliesFor(pending[i].caller) :
           \E historyResult \in {getHistoricalData(pending[i].symbol, reply)} :
           \E value \in {stockResponse(pending[i].symbol, pending[i].quoteResult,
                                       historyResult)} :
             /\ Settle(i, value)
             /\ net' = Append(net, NetSettled("history", pending[i].symbol, reply))
        /\ lastEvent' = "history"
        /\ UNCHANGED <<input, submitted, arg>>

Next == onChange \/ handleSubmit \/ QuoteSettles \/ HistorySettles

Spec == Init /\ [][Next]_vars

\* a request that was issued settles: fetch resolves or rejects
FairSpec == Spec /\ WF_vars(QuoteSettles) /\ WF_vars(HistorySettles)

\* the resolver alone, with no widget around it: one call of getBotResponse(arg)
ResolveInit ==
    /\ messages = <<>>
    /\ input = <<>>
    /\ isLoading = FALSE
    /\ pending = <<>>
    /\ submitted = <<>>
    /\ net = <<>>
    /\ lastEvent = "init"
    /\ arg \in ResolveInputs
    /\ ret = [state |-> "none"]

Call ==
    /\ lastEvent = "init"
    /\ lastEvent' = "call"
    /\ IF isStockCommand(arg)
       THEN /\ pending' = <<Suspended("harness", arg)>>
            /\ net' = <<NetEvent("quote", "request", stockSymbol(arg))>>
            /\ ret' = ret
       ELSE /\ \E value \in {staticResponse(arg)} :
                 ret' = [state |-> "resolved", value |-> value]
            /\ UNCHANGED <<pending, net>>
    /\ UNCHANGED <<messages, input, isLoading, submitted, arg>>

ResolveNext == Call \/ QuoteSettles \/ HistorySettles

ResolveSpec == ResolveInit /\ [][ResolveNext]_vars

(***************************************************************************)
(* Properties of the resolver (checked under ResolveSpec)                  *)
(***************************************************************************)
resolved == ret.state = "resolved"

\* the replies the two requests of the call settled with, once they have
QuoteReplyOf == net[2].reply
HistoryReplyOf == net[4].reply

\* the failures of a quote reply, by kind, as the quote source defines them
QuoteTransportFailed(reply) == reply.kind # "object"
QuoteRateLimited(reply) == reply.kind = "object" /\ Has(reply.json, "Note")
QuoteNotFound(reply) ==
    /\ reply.kind = "object"
    /\ ~Has(reply.json, "Note")
    /\ (Has(reply.json, "Global Quote") => reply.json["Global Quote"] = EmptyObject)
QuoteFailed(reply) ==
    QuoteTransportFailed(reply) \/ QuoteRateLimited(reply) \/ QuoteNotFound(reply)

HistorySucceeded(reply) ==
    /\ reply.kind = "object"
    /\ ~Has(reply.json, "Note")
    /\ Has(reply.json, "Monthly Time Series")

\* C4: in the stock branch a failed quote fetch gives the message of its kind of
\* failure (rate limit, not found naming the symbol, fetch failure) and no chart
\* payload, whatever the history fetch returned
QuoteFailureDecides ==
    (resolved /\ isStockCommand(arg) /\ QuoteFailed(QuoteReplyOf)) =>
        ret.value =
            [text |->
                IF QuoteTransportFailed(QuoteReplyOf)
                THEN Explode("Failed to fetch stock data. Please try again.")
                ELSE IF QuoteRateLimited(QuoteReplyOf)
                THEN Explode("API rate limit reached. Please try again in a minute.")
                ELSE Explode("Could not find stock data for symbol: ") \o net[1].symbol]

\* C4 witness: the quote was rate limited and the history reply was a good
\* 12-entry series
QuoteFailureDecidesWitness ==
    /\ resolved
    /\ isStockCommand(arg)
    /\ QuoteReplyOf = Json(NoteBody)
    /\ HistoryReplyOf = Json("Monthly Time Series" :> Series(12))

ErrorTexts ==
    { Explode("Failed to fetch stock data. Please try again."),
      Explode("API rate limit reached. Please try again in a minute."),
      Explode("Failed to fetch historical data"),
      Explode("No historical data found"),
      ErrorText }

BothSucceeded ==
    /\ isStockCommand(arg)
    /\ ~QuoteFailed(QuoteReplyOf)
    /\ HistorySucceeded(HistoryReplyOf)

\* C5: a response, and the log entry made from it, carries a chart payload iff
\* the stock branch resolved it and both fetches succeeded; a good quote with a
\* failed history gives the quote summary alone, which is no error text
ChartIffBothSucceed ==
    resolved =>
        /\ Has(ret.value, "chartData") <=> BothSucceeded
        /\ (entryOf(ret.value).chartData # undefined) <=> BothSucceeded
        /\ (isStockCommand(arg) /\ ~QuoteFailed(QuoteReplyOf)) =>
              /\ ret.value.text =
                    formatStockResponse(QuoteReplyOf.json["Global Quote"], net[1].symbol)
              /\ ret.value.text \notin ErrorTexts
              /\ ~startsWith(ret.value.text, Explode("Could not find stock data"))

\* C5 witness: the quote was good and the history request was rate limited
ChartIffBothSucceedWitness ==
    /\ resolved
    /\ isStockCommand(arg)
    /\ ~QuoteFailed(QuoteReplyOf)
    /\ HistoryReplyOf = Json(NoteBody)
    /\ ~Has(ret.value, "chartData")

\* C6: an input whose trimmed, lowercased form is a knowledge trigger resolves to
\* exactly that trigger's stored text and no chart payload
ExactTriggerWins ==
    \A i \in DOMAIN predefinedKeys :
        (resolved /\ trim(toLowerCase(arg)) = predefinedKeys[i]) =>
            ret.value = [text |-> predefinedTexts[i]]

\* C6 witness: "what is a stock", which also starts with "what is", was resolved
ExactTriggerWinsWitness ==
    /\ resolved
    /\ arg = toUpperCase(Explode("what is a stock"))

RECURSIVE Tokens(_)
\* the maximal runs of non-white-space characters of s, in order
Tokens(s) ==
    LET t == trimStart(s)
        n == IF \E i \in DOMAIN t : t[i] \in WhiteSpace
             THEN (CHOOSE i \in DOMAIN t :
                      t[i] \in WhiteSpace /\ \A j \in 1..(i - 1) : t[j] \notin WhiteSpace) - 1
             ELSE Len(t)
    IN  IF t = <<>> THEN <<>>
        ELSE <<SubSeq(t, 1, n)>> \o Tokens(SubSeq(t, n + 1, Len(t)))

\* C7: parse gives the first white-space-delimited token, lowercased, as command
\* and the other tokens joined by one space each as args, and the stock branch
\* takes the first token of args as the ticker
ParseSplitsOnWhitespaceRuns ==
    LET tokens == Tokens(toLowerCase(arg))
        command == IF tokens = <<>> THEN <<>> ELSE tokens[1]
        args == join(sliceFrom(tokens, 1), " ")
    IN  /\ parseCommand(arg) = [command |-> command, args |-> args]
        /\ (lastEvent # "init" /\ command = Explode("stock") /\ args # <<>>) =>
              (net # <<>> /\ net[1].symbol = tokens[2])

\* the year-month of the k-th most recent month and its closing value
PeriodOf(k) ==
    NatToString(2024 - ((k - 1) \div 12)) \o <<"-">> \o TwoDigits(12 - ((k - 1) % 12))
ClosingOf(k) == Num((100 + k) * 10000 + 2500)

\* C8: a good history of n entries, newest first, charts as its min(n, 12) most
\* recent entries, oldest first, each as its year-month and its closing value
ChartIsLastTwelveOldestFirst ==
    \A n \in 0..MaxHist :
        (resolved /\ BothSucceeded
           /\ HistoryReplyOf = Json("Monthly Time Series" :> Series(n))) =>
            LET m == IF n < 12 THEN n ELSE 12
                data == ret.value.chartData.data
            IN  /\ Len(data) = m
                /\ \A i \in 1..m :
                      data[i] = [date |-> PeriodOf(m + 1 - i), price |-> ClosingOf(m + 1 - i)]

\* C8 witness: a history of more than 12 entries was charted
ChartIsLastTwelveOldestFirstWitness ==
    /\ resolved
    /\ BothSucceeded
    /\ Len(HistoryReplyOf.json["Monthly Time Series"]) > 12
    /\ Len(ret.value.chartData.data) = 12

\* a definition query: not a stock command, no trigger equal to it or inside it,
\* and "what is" or "explain" in front
DefinitionQuery(lowerMessage) ==
    /\ ~isStockCommand(arg)
    /\ \A i \in DOMAIN predefinedKeys :
          lowerMessage # predefinedKeys[i] /\ ~includes(lowerMessage, predefinedKeys[i])
    /\ startsWith(lowerMessage, Explode("what is")) \/ startsWith(lowerMessage, Explode("explain"))

\* C9: a definition query with a non-empty term resolves to "I'll explain
\* <term>. " and then the stored text of the trigger equal to the term, or the
\* default text when no trigger is; with an empty term to the default text
DefinitionQueryExplains ==
    LET lowerMessage == toLowerCase(arg)
        term == trim(replace(replace(lowerMessage, Explode("what is"), <<>>),
                             Explode("explain"), <<>>))
        stored == IF \E i \in DOMAIN predefinedKeys : predefinedKeys[i] = term
                  THEN predefinedTexts[CHOOSE i \in DOMAIN predefinedKeys :
                                          predefinedKeys[i] = term]
                  ELSE predefinedDefault
    IN  (resolved /\ DefinitionQuery(lowerMessage)) =>
            ret.value =
                [text |-> IF term # <<>>
                          THEN Explode("I'll explain ") \o term \o Explode(". ") \o stored
                          ELSE predefinedDefault]

(***************************************************************************)
(* Properties of the widget (checked under Spec and FairSpec)              *)
(***************************************************************************)
IsPrefix(a, b) == Len(a) <= Len(b) /\ SubSeq(b, 1, Len(a)) = a

\* the answers getBotResponse can give to each message the widget accepts
AnswersTo ==
    [userMessage \in {trim(s) : s \in TypedInputs} |->
        {entryOf(getBotResponse(userMessage, q, h)) :
            q \in QuoteRepliesFor("handleSubmit"), h \in HistoryRepliesFor("handleSubmit")}]

\* entry is an answer getBotResponse can give to userMessage
Answers(userMessage, entry) == entry \in AnswersTo[userMessage]

\* the log is the greeting, then each accepted message followed by its answer
LogInSubmissionOrder ==
    /\ messages[1] = Greeting
    /\ Len(messages) \in {2 * Len(submitted), 2 * Len(submitted) + 1}
    /\ \A i \in 1..Len(submitted) :
          /\ messages[2 * i] = [text |-> submitted[i], isBot |-> FALSE]
          /\ (2 * i + 1 <= Len(messages)) => Answers(submitted[i], messages[2 * i + 1])

\* C1: the log only grows at its end, no entry of it ever changes, and it holds
\* each accepted message before its answer, in the order of the submissions
LogIsAppendOnly ==
    [][IsPrefix(messages, messages')]_vars /\ []LogInSubmissionOrder

\* C1 witness: two submissions were answered, the first one with a chart
LogIsAppendOnlyWitness ==
    /\ Len(messages) = 5
    /\ messages[3].chartData # undefined
    /\ ~isLoading

\* C2: at most one resolution is in flight, it is in flight exactly while
\* isLoading, a submit event during it changes nothing, and a submission is
\* accepted only when none is in flight
SubmissionsAreSerialized ==
    /\ [](Len(pending) <= 1 /\ (isLoading <=> pending # <<>>))
    /\ [][(isLoading /\ lastEvent' \in {"accepted", "rejected"}) =>
             (lastEvent' = "rejected"
                /\ UNCHANGED <<messages, input, isLoading, pending, submitted, net>>)]_vars
    /\ [][(submitted' # submitted) => (~isLoading /\ pending = <<>>)]_vars

\* C2 witness: a submit event arrived while a resolution was in flight
SubmissionsAreSerializedWitness ==
    /\ isLoading
    /\ lastEvent = "rejected"
    /\ Len(pending) = 1
    /\ pending[1].stage = "history"

\* C3: every accepted submission gets exactly one assistant entry, and loading
\* ends, whatever the two requests settle with
EveryAcceptedIsAnswered ==
    /\ [](/\ Len(messages) = 2 * Len(submitted) + (IF isLoading THEN 0 ELSE 1)
          /\ \A i \in 1..Len(submitted) :
                /\ ~messages[2 * i].isBot
                /\ (2 * i + 1 <= Len(messages)) => messages[2 * i + 1].isBot)
    /\ \A n \in 1..MaxSubmits :
          (Len(submitted) = n) ~>
              (Len(messages) >= 2 * n + 1 /\ messages[2 * n + 1].isBot)
    /\ (isLoading ~> ~isLoading)

\* C3 witness: a submission whose two requests both threw was answered, and
\* loading is over
EveryAcceptedIsAnsweredWitness ==
    /\ ~isLoading
    /\ Len(net) = 4
    /\ net[2].reply = Rejects
    /\ net[4].reply = Rejects
    /\ Len(messages) = 2 * Len(submitted) + 1
    /\ messages[Len(messages)].isBot
    /\ messages[Len(messages)].text = Explode("Failed to fetch stock data. Please try again.")

\* the kinds of the network events, in order
NetKinds == [i \in DOMAIN net |-> <<net[i].op, net[i].ev>>]

StockCalls ==
    << <<"quote", "request">>, <<"quote", "settled">>,
       <<"history", "request">>, <<"history", "settled">> >>

\* C10: a submission the stock branch resolves issues one quote request, then,
\* once that has settled and whatever it gave, one history request, each for the
\* symbol, and none again; any other submission issues no request
RequestsPerSubmission ==
    submitted # <<>> =>
        LET userMessage == submitted[Len(submitted)]
            symbol == stockSymbol(userMessage)
        IN  IF isStockCommand(userMessage)
            THEN /\ IsPrefix(NetKinds, StockCalls)
                 /\ \A i \in DOMAIN net : net[i].symbol = symbol
                 /\ Len(net) = (IF ~isLoading THEN 4 ELSE IF pending[1].stage = "quote" THEN 1 ELSE 3)
            ELSE net = <<>>

\* C10 witness: the quote request failed and the history request was still made
RequestsPerSubmissionWitness ==
    /\ ~isLoading
    /\ Len(net) = 4
    /\ QuoteFailed(net[2].reply)
    /\ net[3] = NetEvent("history", "request", Explode("tsla"))

====
